---- MODULE Spec2Model ----
(***************************************************************************)
(* Model of the Dev-Tools components: DependencyChecker (package.json      *)
(* analysis behind a 500 ms timer, file upload, update-to-latest),         *)
(* ReadmeGenerator (markdown composition, license selection) and           *)
(* BadgeSelector (badge catalog).                                          *)
(*                                                                         *)
(* Strings the code inspects character by character (version specifiers,   *)
(* the features field, badge identifiers and labels) are sequences of      *)
(* one-character strings; strings the code only tests for emptiness,       *)
(* compares or concatenates (keys, the other form fields, issue messages,  *)
(* the generated markdown) are TLA+ strings.                               *)
(***************************************************************************)
EXTENDS Integers, Sequences, FiniteSets, TLC

VARIABLES
    \* DependencyChecker component state (DependencyChecker.tsx:38-41)
    packageJson,    \* text of the input field
    dependencies,   \* shown records
    analysis,       \* shown summary: Null or Some(summary)
    isAnalyzing,    \* loading flag
    \* event-loop state of DependencyChecker
    timers,         \* pending setTimeout callbacks, each holding its jsonContent
    reads,          \* FileReader reads in flight, each holding the file content
    \* history variables (observers, never read by the actions' guards)
    requested,      \* jsonContent of the most recent analyzePackageJson call
    done,           \* jsonContent of the most recent completed timer callback
    shownBefore,    \* analysis was non-null just before that callback
    origin,         \* the last successful updateToLatestVersions: text before, text after
    last,           \* the handler that ran last
    \* ReadmeGenerator component state (ReadmeGenerator.tsx:31-39)
    projectName, description, installation, usage, features,
    selectedLicenses, author, contributing, badges,
    \* BadgeSelector component state (BadgeSelector.tsx:130-134)
    selectedType, badgeUrl, customLabel, customMessage, customColor

dcVars == <<packageJson, dependencies, analysis, isAnalyzing, timers, reads,
            requested, done, shownBefore, origin, last>>

formVars == <<projectName, description, installation, usage, features,
              selectedLicenses, author, contributing>>

badgeVars == <<badges, selectedType, badgeUrl, customLabel, customMessage, customColor>>

rgVars == <<formVars, badgeVars>>

vars == <<dcVars, rgVars>>

\* ------------------------------------------------------------------ bounds

\* pending timers at a time
MaxPending == 2
\* file reads in flight at a time
MaxReads == 1
\* largest canonical array-index key the key ordering recognises
MaxIndexKey == 3
\* badges in the list at a time
MaxBadges == 2
\* how many of LICENSE_OPTIONS, from the first, the license-only runs toggle
LicenseCount == 5

\* ------------------------------------------------------------ JSON values

JUndefined == [t |-> "undefined", v |-> 0]
JNull == [t |-> "null", v |-> 0]
JBool(b) == [t |-> "bool", v |-> b]
JNum(n) == [t |-> "num", v |-> n]
\* s: sequence of characters
JStr(s) == [t |-> "str", v |-> s]
JArr(a) == [t |-> "arr", v |-> a]
\* m: sequence of <<key, value>> members, in source / enumeration order
JObj(m) == [t |-> "obj", v |-> m]

Null == <<>>
Some(x) == <<x>>

\* -1 when k is not a canonical array index
ArrayIndex(k) ==
    IF \E i \in 0..MaxIndexKey : ToString(i) = k
    THEN CHOOSE i \in 0..MaxIndexKey : ToString(i) = k
    ELSE -1

HasKey(members, k) == \E i \in 1..Len(members) : members[i][1] = k

\* CreateDataProperty: an existing key keeps its place and takes the new value
DefineMember(members, k, val) ==
    IF HasKey(members, k)
    THEN [i \in 1..Len(members) |->
            IF members[i][1] = k THEN <<k, val>> ELSE members[i]]
    ELSE Append(members, <<k, val>>)

RECURSIVE SortedIndexMembers(_, _)
SortedIndexMembers(members, from) ==
    IF from > MaxIndexKey THEN <<>>
    ELSE SelectSeq(members, LAMBDA m : ArrayIndex(m[1]) = from)
         \o SortedIndexMembers(members, from + 1)

\* OrdinaryOwnPropertyKeys: array-index keys ascending, then the other keys
\* in creation order
OwnPropertyOrder(members) ==
    SortedIndexMembers(members, 0)
    \o SelectSeq(members, LAMBDA m : ArrayIndex(m[1]) = -1)

RECURSIVE ParseValue(_)
RECURSIVE ParseMembers(_, _, _)
ParseMembers(src, i, acc) ==
    IF i > Len(src) THEN acc
    ELSE ParseMembers(src, i + 1, DefineMember(acc, src[i][1], ParseValue(src[i][2])))

\* the value JSON.parse builds from the document a text denotes
ParseValue(x) ==
    CASE x.t = "obj" -> JObj(OwnPropertyOrder(ParseMembers(x.v, 1, <<>>)))
      [] x.t = "arr" -> JArr([i \in 1..Len(x.v) |-> ParseValue(x.v[i])])
      [] OTHER -> x

\* ------------------------------------------------------------------ texts
\* A text is either malformed (raw holds it) or the JSON text of a document
\* (members in written order, duplicates allowed) in a layout.

MalformedText(raw) == [wf |-> FALSE, raw |-> raw, fmt |-> "raw", doc |-> JUndefined]
JsonText(fmt, doc) == [wf |-> TRUE, raw |-> "", fmt |-> fmt, doc |-> doc]
EmptyText == MalformedText("")

\* JS truthiness of a string
NonEmpty(text) == text # EmptyText

JSONParse(text) ==
    IF text.wf THEN [ok |-> TRUE, val |-> ParseValue(text.doc)]
    ELSE [ok |-> FALSE, val |-> JUndefined]

\* JSON.stringify(value, null, 2)
JSONStringify(val) == JsonText("pretty", val)

\* ---------------------------------------------------------- JS primitives

Truthy(x) ==
    CASE x.t = "undefined" -> FALSE
      [] x.t = "null" -> FALSE
      [] x.t = "bool" -> x.v
      [] x.t = "num" -> x.v # 0
      [] x.t = "str" -> Len(x.v) > 0
      [] OTHER -> TRUE

\* property access on null or undefined throws a TypeError
CanRead(x) == x.t \notin {"null", "undefined"}

\* x[key] for a key that is neither an index nor inherited
Get(x, key) ==
    IF x.t = "obj" /\ HasKey(x.v, key)
    THEN x.v[CHOOSE i \in 1..Len(x.v) : x.v[i][1] = key][2]
    ELSE JUndefined

\* Object.entries(x)
ObjectEntries(x) ==
    CASE x.t = "obj" -> x.v
      [] x.t = "arr" -> [i \in 1..Len(x.v) |-> <<ToString(i - 1), x.v[i]>>]
      [] x.t = "str" -> [i \in 1..Len(x.v) |-> <<ToString(i - 1), JStr(<<x.v[i]>>)>>]
      [] OTHER -> <<>>

\* Object.keys(x).length
KeyCount(x) == Len(ObjectEntries(x))

StartsWith(s, c) == Len(s) >= 1 /\ s[1] = c

Latest == <<"l", "a", "t", "e", "s", "t">>

\* ------------------------------------------ analyzePackageJson: try block

Dependency(name, version, type) == [name |-> name, version |-> version, type |-> type]

\* deps and the three counters before the first section
NewRun ==
    [threw |-> FALSE, deps |-> <<>>,
     specificVersions |-> 0, rangeVersions |-> 0, latestVersions |-> 0]

\* mutant: the "latest" test is an if of its own, not an else-if
TallyLatestTwice(run, versionStr) ==
    LET r == IF versionStr = Latest
             THEN [run EXCEPT !.latestVersions = @ + 1] ELSE run
    IN  IF StartsWith(versionStr, "^") \/ StartsWith(versionStr, "~")
        THEN [r EXCEPT !.rangeVersions = @ + 1]
        ELSE [r EXCEPT !.specificVersions = @ + 1]

\* mutant: only the caret counts as a range qualifier
TallyCaretOnly(run, versionStr) ==
    IF StartsWith(versionStr, "^")
    THEN [run EXCEPT !.rangeVersions = @ + 1]
    ELSE IF versionStr = Latest
         THEN [run EXCEPT !.latestVersions = @ + 1]
         ELSE [run EXCEPT !.specificVersions = @ + 1]

\* the if / else-if / else on versionStr
Tally(run, versionStr) ==
    IF StartsWith(versionStr, "^") \/ StartsWith(versionStr, "~")
    THEN [run EXCEPT !.rangeVersions = @ + 1]
    ELSE IF versionStr = Latest
         THEN [run EXCEPT !.latestVersions = @ + 1]
         ELSE [run EXCEPT !.specificVersions = @ + 1]

\* Object.entries(section).forEach: push the record, then classify; a version
\* that is not a string has no startsWith, and the call throws a TypeError
RECURSIVE ForEachEntry(_, _, _, _)
ForEachEntry(entries, i, type, run) ==
    IF i > Len(entries) \/ run.threw THEN run
    ELSE LET name == entries[i][1]
             version == entries[i][2]
             pushed == [run EXCEPT !.deps = Append(@, Dependency(name, version, type))]
         IN  IF version.t # "str"
             THEN [pushed EXCEPT !.threw = TRUE]
             ELSE ForEachEntry(entries, i + 1, type, Tally(pushed, version.v))

\* if (parsed[type]) { Object.entries(parsed[type]).forEach(...) }
ExtractSection(parsed, type, run) ==
    IF run.threw \/ ~Truthy(Get(parsed, type)) THEN run
    ELSE ForEachEntry(ObjectEntries(Get(parsed, type)), 1, type, run)

deprecatedPackages == {"request", "node-uuid", "gulp-util"}

LatestIssue(n) ==
    ToString(n) \o " package(s) using \"latest\" version (not recommended for production)"
NoDependenciesIssue == "No dependencies found"
NameMissingIssue == "Package name is missing"
VersionMissingIssue == "Package version is missing"
DeprecatedIssue(name) == "\"" \o name \o "\" is deprecated and should be replaced"

DeprecatedIssues(deps) ==
    LET hit == SelectSeq(deps, LAMBDA dep : dep.name \in deprecatedPackages)
    IN  [i \in 1..Len(hit) |-> DeprecatedIssue(hit[i].name)]

\* mutant: the version check comes before the name check
IssuesVersionFirst(parsed, deps, latestVersions) ==
    (IF latestVersions > 0 THEN <<LatestIssue(latestVersions)>> ELSE <<>>)
    \o (IF Len(deps) = 0 THEN <<NoDependenciesIssue>> ELSE <<>>)
    \o (IF ~Truthy(Get(parsed, "version")) THEN <<VersionMissingIssue>> ELSE <<>>)
    \o (IF ~Truthy(Get(parsed, "name")) THEN <<NameMissingIssue>> ELSE <<>>)
    \o DeprecatedIssues(deps)

\* mutant: the name check asks whether the field exists, not whether it is
\* truthy
IssuesNameByPresence(parsed, deps, latestVersions) ==
    (IF latestVersions > 0 THEN <<LatestIssue(latestVersions)>> ELSE <<>>)
    \o (IF Len(deps) = 0 THEN <<NoDependenciesIssue>> ELSE <<>>)
    \o (IF Get(parsed, "name") = JUndefined THEN <<NameMissingIssue>> ELSE <<>>)
    \o (IF ~Truthy(Get(parsed, "version")) THEN <<VersionMissingIssue>> ELSE <<>>)
    \o DeprecatedIssues(deps)

\* the issue list, in the order the code pushes
Issues(parsed, deps, latestVersions) ==
    (IF latestVersions > 0 THEN <<LatestIssue(latestVersions)>> ELSE <<>>)
    \o (IF Len(deps) = 0 THEN <<NoDependenciesIssue>> ELSE <<>>)
    \o (IF ~Truthy(Get(parsed, "name")) THEN <<NameMissingIssue>> ELSE <<>>)
    \o (IF ~Truthy(Get(parsed, "version")) THEN <<VersionMissingIssue>> ELSE <<>>)
    \o DeprecatedIssues(deps)

SectionCount(parsed, type) ==
    IF Truthy(Get(parsed, type)) THEN KeyCount(Get(parsed, type)) ELSE 0

\* the object handed to setAnalysis
Summary(parsed, run) ==
    [total |-> Len(run.deps),
     dependencies |-> SectionCount(parsed, "dependencies"),
     devDependencies |-> SectionCount(parsed, "devDependencies"),
     peerDependencies |-> SectionCount(parsed, "peerDependencies"),
     specificVersions |-> run.specificVersions,
     rangeVersions |-> run.rangeVersions,
     latestVersions |-> run.latestVersions,
     issues |-> Issues(parsed, run.deps, run.latestVersions)]

Thrown == [threw |-> TRUE, deps |-> <<>>, analysis |-> Null]

\* mutant: the peerDependencies block comes before the devDependencies block
TryAnalyzePeerFirst(jsonContent) ==
    LET p == JSONParse(jsonContent)
    IN  IF ~p.ok \/ ~CanRead(p.val) THEN Thrown
        ELSE LET run == ExtractSection(p.val, "devDependencies",
                          ExtractSection(p.val, "peerDependencies",
                            ExtractSection(p.val, "dependencies", NewRun)))
             IN  IF run.threw THEN Thrown
                 ELSE [threw |-> FALSE, deps |-> run.deps,
                       analysis |-> Some(Summary(p.val, run))]

\* the try block of the timer callback: what it hands to setDependencies and
\* setAnalysis, or that it threw (JSON.parse, parsed.dependencies on null,
\* versionStr.startsWith on a non-string)
TryAnalyze(jsonContent) ==
    LET p == JSONParse(jsonContent)
    IN  IF ~p.ok \/ ~CanRead(p.val) THEN Thrown
        ELSE LET run == ExtractSection(p.val, "peerDependencies",
                          ExtractSection(p.val, "devDependencies",
                            ExtractSection(p.val, "dependencies", NewRun)))
             IN  IF run.threw THEN Thrown
                 ELSE [threw |-> FALSE, deps |-> run.deps,
                       analysis |-> Some(Summary(p.val, run))]

\* ------------------------------------------ updateToLatestVersions: try block

\* Object.keys(section).forEach(key => section[key] = "latest")
SetAllLatest(section) ==
    CASE section.t = "obj" ->
            JObj([i \in 1..Len(section.v) |-> <<section.v[i][1], JStr(Latest)>>])
      [] section.t = "arr" -> JArr([i \in 1..Len(section.v) |-> JStr(Latest)])
      [] OTHER -> section

\* a truthy string section has index keys, and the assignment to an index of
\* a primitive string throws a TypeError (module code is strict)
UpdateThrows(section) == Truthy(section) /\ section.t = "str"

\* mutant: the rewritten section is deleted and added again, which moves it
\* behind the other top-level fields
UpdateSectionMoved(parsed, type) ==
    IF Truthy(Get(parsed, type))
    THEN JObj(Append(SelectSeq(parsed.v, LAMBDA m : m[1] # type),
                     <<type, SetAllLatest(Get(parsed, type))>>))
    ELSE parsed

UpdateSection(parsed, type) ==
    IF Truthy(Get(parsed, type))
    THEN JObj(DefineMember(parsed.v, type, SetAllLatest(Get(parsed, type))))
    ELSE parsed

SectionTypes == <<"dependencies", "devDependencies", "peerDependencies">>

\* mutant: the peerDependencies block is missing
TryUpdateNoPeer(text) ==
    LET p == JSONParse(text)
    IN  IF ~p.ok \/ ~CanRead(p.val) THEN [threw |-> TRUE, updatedJson |-> EmptyText]
        ELSE IF \E i \in 1..2 : UpdateThrows(Get(p.val, SectionTypes[i]))
        THEN [threw |-> TRUE, updatedJson |-> EmptyText]
        ELSE [threw |-> FALSE,
              updatedJson |-> JSONStringify(
                  UpdateSection(UpdateSection(p.val,
                      "dependencies"), "devDependencies"))]

\* parse, rewrite the three sections, JSON.stringify(parsed, null, 2)
TryUpdate(text) ==
    LET p == JSONParse(text)
    IN  IF ~p.ok \/ ~CanRead(p.val) THEN [threw |-> TRUE, updatedJson |-> EmptyText]
        ELSE IF \E i \in 1..3 : UpdateThrows(Get(p.val, SectionTypes[i]))
        THEN [threw |-> TRUE, updatedJson |-> EmptyText]
        ELSE [threw |-> FALSE,
              updatedJson |-> JSONStringify(
                  UpdateSection(UpdateSection(UpdateSection(p.val,
                      "dependencies"), "devDependencies"), "peerDependencies"))]

\* ---------------------------------------------------- DependencyChecker

\* mutant: the catch block only reports
CatchKeepsShown(deps, an) == [deps |-> deps, analysis |-> an]

\* mutant: the catch block forgets setDependencies([])
CatchKeepsRecords(deps, an) == [deps |-> deps, analysis |-> Null]

\* the catch block: setDependencies([]); setAnalysis(null)
Catch(deps, an) == [deps |-> <<>>, analysis |-> Null]

\* mutant: the callback parses the field's content when it runs
CallbackInputCurrent(jsonContent, current) == current

\* the text the callback parses: the jsonContent its closure captured, not
\* the field's content when it runs
CallbackInput(jsonContent, current) == jsonContent

\* setTimeout callbacks of equal delay run in the order they were set
NextTimer(queue) == 1

RemoveAt(seq, i) == SubSeq(seq, 1, i - 1) \o SubSeq(seq, i + 1, Len(seq))

\* analyzePackageJson(jsonContent), up to the setTimeout call
analyzePackageJson(jsonContent) ==
    /\ Len(timers) < MaxPending
    /\ isAnalyzing' = TRUE
    /\ timers' = Append(timers, jsonContent)
    /\ requested' = Some(jsonContent)

\* mutant: setIsAnalyzing(false) is the last statement of the try block, not
\* a finally block
TimerFiredWithoutFinally ==
    /\ timers # <<>>
    /\ LET i == NextTimer(timers)
           r == TryAnalyze(CallbackInput(timers[i], packageJson))
           shown == IF r.threw THEN Catch(dependencies, analysis)
                    ELSE [deps |-> r.deps, analysis |-> r.analysis]
       IN  /\ dependencies' = shown.deps
           /\ analysis' = shown.analysis
           /\ isAnalyzing' = (IF r.threw THEN isAnalyzing ELSE FALSE)
           /\ timers' = RemoveAt(timers, i)
           /\ done' = Some(timers[i])
    /\ shownBefore' = (analysis # Null)
    /\ last' = "timer"
    /\ UNCHANGED <<packageJson, reads, requested, origin>>
    /\ UNCHANGED rgVars

\* the timer callback: try / catch / finally
TimerFired ==
    /\ timers # <<>>
    /\ LET i == NextTimer(timers)
           r == TryAnalyze(CallbackInput(timers[i], packageJson))
           shown == IF r.threw THEN Catch(dependencies, analysis)
                    ELSE [deps |-> r.deps, analysis |-> r.analysis]
       IN  /\ dependencies' = shown.deps
           /\ analysis' = shown.analysis
           /\ isAnalyzing' = FALSE
           /\ timers' = RemoveAt(timers, i)
           /\ done' = Some(timers[i])
    /\ shownBefore' = (analysis # Null)
    /\ last' = "timer"
    /\ UNCHANGED <<packageJson, reads, requested, origin>>
    /\ UNCHANGED rgVars

\* the Analyze button: disabled={!packageJson || isAnalyzing}
HandleAnalyze ==
    /\ NonEmpty(packageJson)
    /\ ~isAnalyzing
    /\ analyzePackageJson(packageJson)
    /\ last' = "analyze"
    /\ UNCHANGED <<packageJson, dependencies, analysis, reads, done, shownBefore, origin>>
    /\ UNCHANGED rgVars

\* the textarea's onChange
SetPackageJson(text) ==
    /\ text # packageJson
    /\ packageJson' = text
    /\ last' = "edit"
    /\ UNCHANGED <<dependencies, analysis, isAnalyzing, timers, reads,
                   requested, done, shownBefore, origin>>
    /\ UNCHANGED rgVars

EndsWith(s, suffix) ==
    /\ Len(s) >= Len(suffix)
    /\ SubSeq(s, Len(s) - Len(suffix) + 1, Len(s)) = suffix

DotJson == <<".", "j", "s", "o", "n">>
PackageDotJson == <<"p", "a", "c", "k", "a", "g", "e">> \o DotJson

\* !(!file.name.endsWith('.json') && file.name !== 'package.json')
AcceptedFileName(name) == EndsWith(name, DotJson) \/ name = PackageDotJson

\* handleFileUpload with a file of the wrong type: toast and return
UploadRejected(file) ==
    /\ ~AcceptedFileName(file.name)
    /\ last' = "uploadRejected"
    /\ UNCHANGED <<packageJson, dependencies, analysis, isAnalyzing, timers, reads,
                   requested, done, shownBefore, origin>>
    /\ UNCHANGED rgVars

\* handleFileUpload with an accepted file: reader.readAsText(file)
UploadAccepted(file) ==
    /\ AcceptedFileName(file.name)
    /\ Len(reads) < MaxReads
    /\ reads' = Append(reads, file.content)
    /\ last' = "upload"
    /\ UNCHANGED <<packageJson, dependencies, analysis, isAnalyzing, timers,
                   requested, done, shownBefore, origin>>
    /\ UNCHANGED rgVars

\* reader.onload
ReaderOnload ==
    \E i \in 1..Len(reads) :
        /\ packageJson' = reads[i]
        /\ analyzePackageJson(reads[i])
        /\ reads' = RemoveAt(reads, i)
        /\ last' = "onload"
        /\ UNCHANGED <<dependencies, analysis, done, shownBefore, origin>>
        /\ UNCHANGED rgVars

\* mutant: a failed read empties the text field
ReaderOnerrorClearsText ==
    \E i \in 1..Len(reads) :
        /\ reads' = RemoveAt(reads, i)
        /\ packageJson' = EmptyText
        /\ last' = "onerror"
        /\ UNCHANGED <<dependencies, analysis, isAnalyzing, timers,
                       requested, done, shownBefore, origin>>
        /\ UNCHANGED rgVars

\* reader.onerror
ReaderOnerror ==
    \E i \in 1..Len(reads) :
        /\ reads' = RemoveAt(reads, i)
        /\ last' = "onerror"
        /\ UNCHANGED <<packageJson, dependencies, analysis, isAnalyzing, timers,
                       requested, done, shownBefore, origin>>
        /\ UNCHANGED rgVars

\* the catch block of updateToLatestVersions: a toast, no state change
UpdateCatch(deps, an) == [deps |-> deps, analysis |-> an]

\* the Update to Latest button (rendered when analysis && packageJson)
\* on a text the try block throws on
UpdateFailed ==
    /\ analysis # Null
    /\ NonEmpty(packageJson)
    /\ TryUpdate(packageJson).threw
    /\ dependencies' = UpdateCatch(dependencies, analysis).deps
    /\ analysis' = UpdateCatch(dependencies, analysis).analysis
    /\ last' = "updateFailed"
    /\ UNCHANGED <<packageJson, isAnalyzing, timers, reads,
                   requested, done, shownBefore, origin>>
    /\ UNCHANGED rgVars

\* the Update to Latest button on a text the try block rewrites
UpdateToLatestVersions ==
    /\ analysis # Null
    /\ NonEmpty(packageJson)
    /\ ~TryUpdate(packageJson).threw
    /\ packageJson' = TryUpdate(packageJson).updatedJson
    /\ analyzePackageJson(TryUpdate(packageJson).updatedJson)
    /\ origin' = Some([from |-> packageJson, to |-> TryUpdate(packageJson).updatedJson])
    /\ last' = "update"
    /\ UNCHANGED <<dependencies, analysis, reads, done, shownBefore>>
    /\ UNCHANGED rgVars

\* loadExample: JSON.stringify(example, null, 2)
ExampleText ==
    JSONStringify(JObj(<<
        <<"name", JStr(<<"m","y","-","p","r","o","j","e","c","t">>)>>,
        <<"version", JStr(<<"1",".","0",".","0">>)>>,
        <<"dependencies", JObj(<<
            <<"react", JStr(<<"^","1","8",".","2",".","0">>)>>,
            <<"react-dom", JStr(<<"^","1","8",".","2",".","0">>)>>,
            <<"lodash", JStr(<<"4",".","1","7",".","2","1">>)>>,
            <<"axios", JStr(<<"^","1",".","6",".","0">>)>> >>)>>,
        <<"devDependencies", JObj(<<
            <<"typescript", JStr(<<"^","5",".","0",".","0">>)>>,
            <<"vite", JStr(<<"^","5",".","0",".","0">>)>>,
            <<"@types/react", JStr(<<"^","1","8",".","2",".","0">>)>> >>)>> >>))

LoadExample ==
    /\ packageJson' = ExampleText
    /\ last' = "example"
    /\ UNCHANGED <<dependencies, analysis, isAnalyzing, timers, reads,
                   requested, done, shownBefore, origin>>
    /\ UNCHANGED rgVars

\* ------------------------------------------------------ inputs of the model

NotJsonText == MalformedText("{not json")

\* 5
NumberText == JsonText("compact", JNum(5))

\* {"name":"x","version":"1.0.0","dependencies":{"react":"^18.2.0",
\*  "lodash":"latest"},"devDependencies":{}}
SmallManifest ==
    JsonText("compact", JObj(<<
        <<"name", JStr(<<"x">>)>>,
        <<"version", JStr(<<"1",".","0",".","0">>)>>,
        <<"dependencies", JObj(<<
            <<"react", JStr(<<"^","1","8",".","2",".","0">>)>>,
            <<"lodash", JStr(Latest)>> >>)>>,
        <<"devDependencies", JObj(<<>>)>> >>))

\* {"dependencies":{"request":"1.0.0"}}
RequestManifest ==
    JsonText("compact", JObj(<<
        <<"dependencies", JObj(<<
            <<"request", JStr(<<"1",".","0",".","0">>)>> >>)>> >>))

\* {"name":"x","dependencies":{"a":1}}
NumericVersionManifest ==
    JsonText("compact", JObj(<<
        <<"name", JStr(<<"x">>)>>,
        <<"dependencies", JObj(<< <<"a", JNum(1)>> >>)>> >>))

\* what the user types or pastes into the field
EditTexts == {EmptyText, NotJsonText, ExampleText}

\* the files the user picks
Files ==
    {[name |-> PackageDotJson, content |-> ExampleText],
     [name |-> <<"a">> \o DotJson, content |-> NotJsonText],
     [name |-> <<"a", ".", "t", "x", "t">>, content |-> ExampleText],
     [name |-> <<"j", "s", "o", "n">>, content |-> ExampleText]}

\* values a manifest may hold for a dependency section (Absent: no member)
Absent == JUndefined
SectionValues ==
    {Absent,
     JObj(<<>>),
     JObj(<< <<"react", JStr(<<"^", "1">>)>>, <<"lodash", JStr(<<"1">>)>> >>),
     JObj(<< <<"request", JStr(Latest)>>, <<"a", JStr(<<"~", "1">>)>> >>),
     JObj(<< <<"a", JStr(Latest \o <<"!">>)>>, <<"b", JStr(<<>>)>> >>),
     JObj(<< <<"b", JStr(<<"1">>)>>, <<"1", JStr(<<"^", "1">>)>>,
             <<"b", JStr(Latest)>>, <<"0", JStr(<<"2">>)>> >>),
     JObj(<< <<"a", JNum(1)>> >>),
     JObj(<< <<"a", JStr(<<"1">>)>>, <<"b", JObj(<<>>)>> >>),
     JArr(<<JStr(<<"^", "1">>), JStr(Latest)>>),
     JStr(<<"^", "a">>),
     JNum(5),
     JNull}
DevSectionValues ==
    {Absent,
     JObj(<<>>),
     JObj(<< <<"gulp-util", JStr(<<"~", "3">>)>> >>),
     JObj(<< <<"vite", JNull>> >>),
     JStr(<<"x">>)}
PeerSectionValues ==
    {Absent,
     JObj(<< <<"react", JStr(Latest)>>, <<"node-uuid", JStr(<<"1">>)>> >>),
     JBool(TRUE)}
NameValues == {Absent, JStr(<<"x">>), JStr(<<>>)}
VersionValues == {Absent, JStr(<<"1">>), JNum(0)}

Member(key, val) == IF val = Absent THEN <<>> ELSE << <<key, val>> >>

\* manifest texts: JSON objects over the values above, and the other
\* top-level values
ManifestTexts ==
    { JsonText("compact", JObj(
          Member("name", n) \o Member("dependencies", d)
          \o Member("version", v) \o Member("devDependencies", dd)
          \o Member("peerDependencies", pd))) :
        n \in NameValues, v \in VersionValues, d \in SectionValues,
        dd \in DevSectionValues, pd \in PeerSectionValues }
    \cup { JsonText("compact", x) :
             x \in {JNull, JNum(5), JBool(TRUE), JStr(<<"a">>),
                    JArr(<<JNum(1)>>), JArr(<<>>)} }
    \cup {NotJsonText, ExampleText, NumberText, SmallManifest, RequestManifest,
          NumericVersionManifest}

\* ------------------------------------------------------- string helpers

RECURSIVE Str(_)
\* the string a sequence of characters spells
Str(chars) == IF chars = <<>> THEN "" ELSE Head(chars) \o Str(Tail(chars))

RECURSIVE Concat(_)
\* the concatenation of a sequence of strings
Concat(strings) == IF strings = <<>> THEN "" ELSE Head(strings) \o Concat(Tail(strings))

WhiteSpace == {" ", "\t", "\n", "\r", "\f"}

RECURSIVE TrimStart(_)
TrimStart(s) == IF s # <<>> /\ Head(s) \in WhiteSpace THEN TrimStart(Tail(s)) ELSE s

RECURSIVE TrimEnd(_)
TrimEnd(s) ==
    IF s # <<>> /\ s[Len(s)] \in WhiteSpace THEN TrimEnd(SubSeq(s, 1, Len(s) - 1)) ELSE s

\* String.prototype.trim
Trim(s) == TrimEnd(TrimStart(s))

RECURSIVE SplitFrom(_, _, _)
SplitFrom(s, i, line) ==
    IF i > Len(s) THEN <<line>>
    ELSE IF s[i] = "\n" THEN <<line>> \o SplitFrom(s, i + 1, <<>>)
    ELSE SplitFrom(s, i + 1, Append(line, s[i]))

\* s.split("\n")
SplitLines(s) == SplitFrom(s, 1, <<>>)

Lower == {"a", "b", "c", "d", "e", "f", "g", "h", "i", "j", "k", "l", "m",
          "n", "o", "p", "q", "r", "s", "t", "u", "v", "w", "x", "y", "z"}
Upper == {"A", "B", "C", "D", "E", "F", "G", "H", "I", "J", "K", "L", "M",
          "N", "O", "P", "Q", "R", "S", "T", "U", "V", "W", "X", "Y", "Z"}
Digit == {"0", "1", "2", "3", "4", "5", "6", "7", "8", "9"}

\* encodeURIComponent leaves A-Z a-z 0-9 - _ . ! ~ * ' ( ) and escapes the
\* rest (the characters below are the escaped ones the inputs use)
EncodeChar(c) ==
    CASE c = " " -> "%20"
      [] c = "/" -> "%2F"
      [] c = "%" -> "%25"
      [] c = ":" -> "%3A"
      [] c = "@" -> "%40"
      [] c = "\t" -> "%09"
      [] c = "\n" -> "%0A"
      [] OTHER -> c

encodeURIComponent(s) == Concat([i \in 1..Len(s) |-> EncodeChar(s[i])])

\* ------------------------------------------------------ BadgeSelector

\* [a-z0-9-_] under the i flag
WordClass == Lower \cup Upper \cup Digit \cup {"-", "_"}

AllIn(s, class) == \A i \in 1..Len(s) : s[i] \in class

\* /^[a-z0-9-_@\/]+$/i
NpmPattern(url) == Len(url) >= 1 /\ AllIn(url, WordClass \cup {"@", "/"})

\* /^[a-z0-9-_]+\/[a-z0-9-_\.]+$/i
RepoPattern(url) ==
    \E k \in 2..(Len(url) - 1) :
        /\ url[k] = "/"
        /\ AllIn(SubSeq(url, 1, k - 1), WordClass)
        /\ AllIn(SubSeq(url, k + 1, Len(url)), WordClass \cup {"."})

LineTerminators == {"\n", "\r"}

\* the letters of "https", lowered (the i flag)
LowerCase(c) ==
    CASE c = "H" -> "h" [] c = "T" -> "t" [] c = "P" -> "p" [] c = "S" -> "s"
      [] OTHER -> c

HasPrefixIgnoreCase(s, prefix) ==
    /\ Len(s) >= Len(prefix)
    /\ \A i \in 1..Len(prefix) : LowerCase(s[i]) = prefix[i]

\* /^https?:\/\/.+$/i
HttpPattern(url) ==
    \E prefix \in {<<"h", "t", "t", "p", ":", "/", "/">>,
                   <<"h", "t", "t", "p", "s", ":", "/", "/">>} :
        /\ HasPrefixIgnoreCase(url, prefix)
        /\ Len(url) > Len(prefix)
        /\ \A i \in (Len(prefix) + 1)..Len(url) : url[i] \notin LineTerminators

\* /^[a-z0-9-_\s\.]+$/i
LicensePattern(url) == Len(url) >= 1 /\ AllIn(url, WordClass \cup WhiteSpace \cup {"."})

\* /.*/
AnyPattern(url) == TRUE

\* an optional argument: Undefined, or the characters given
Undefined == <<>>
OrDefault(arg, default) == IF arg = Undefined THEN default ELSE arg

\* badgeTemplates, in catalog order
TemplateTypes ==
    <<"npm-version", "npm-downloads", "github-stars", "github-forks", "github-issues",
      "github-license", "build-status", "coverage", "license", "custom">>

\* template.urlPattern.test(url)
UrlPatternTest(type, url) ==
    CASE type \in {"npm-version", "npm-downloads"} -> NpmPattern(url)
      [] type \in {"github-stars", "github-forks", "github-issues", "github-license"} ->
            RepoPattern(url)
      [] type \in {"build-status", "coverage"} -> HttpPattern(url)
      [] type = "license" -> LicensePattern(url)
      [] type = "custom" -> AnyPattern(url)

\* template.generateMarkdown(url, label, message, color)
generateMarkdown(type, url, label, message, color) ==
    CASE type = "npm-version" -> "![npm](https://img.shields.io/npm/v/" \o Str(url) \o ")"
      [] type = "npm-downloads" -> "![npm](https://img.shields.io/npm/dm/" \o Str(url) \o ")"
      [] type = "github-stars" ->
            "![GitHub stars](https://img.shields.io/github/stars/" \o Str(url) \o ")"
      [] type = "github-forks" ->
            "![GitHub forks](https://img.shields.io/github/forks/" \o Str(url) \o ")"
      [] type = "github-issues" ->
            "![GitHub issues](https://img.shields.io/github/issues/" \o Str(url) \o ")"
      [] type = "github-license" ->
            "![GitHub license](https://img.shields.io/github/license/" \o Str(url) \o ")"
      [] type = "build-status" ->
            "![Build Status](https://img.shields.io/badge/build-passing-brightgreen)"
      [] type = "coverage" ->
            "![Coverage](https://img.shields.io/badge/coverage-95%25-brightgreen)"
      [] type = "license" ->
            "![License](https://img.shields.io/badge/license-"
            \o encodeURIComponent(url) \o "-blue)"
      [] type = "custom" ->
            "![" \o Str(OrDefault(label, <<"l", "a", "b", "e", "l">>))
            \o "](https://img.shields.io/badge/"
            \o encodeURIComponent(OrDefault(label, <<"l", "a", "b", "e", "l">>)) \o "-"
            \o encodeURIComponent(OrDefault(message, <<"m", "e", "s", "s", "a", "g", "e">>))
            \o "-" \o Str(OrDefault(color, <<"b", "l", "u", "e">>)) \o ")"

\* badgeTemplates.find(t => t.type === type) finds a template
HasTemplate(type) == \E i \in 1..Len(TemplateTypes) : TemplateTypes[i] = type

\* mutant: any identifier passes once a template is selected
validateUrlAny(url) == HasTemplate(selectedType)

\* validateUrl
validateUrl(url) == HasTemplate(selectedType) /\ UrlPatternTest(selectedType, url)

Blue == <<"b", "l", "u", "e">>

\* x || undefined
OrUndefined(x) == IF x = <<>> THEN Undefined ELSE x

\* the Select of badge types
SetSelectedType(type) ==
    /\ HasTemplate(type)
    /\ type # selectedType
    /\ selectedType' = type
    /\ UNCHANGED <<badgeUrl, customLabel, customMessage, customColor, badges>>
    /\ UNCHANGED <<formVars, dcVars>>

\* the identifier input, rendered when a template is selected
SetBadgeUrl(url) ==
    /\ HasTemplate(selectedType)
    /\ url # badgeUrl
    /\ badgeUrl' = url
    /\ UNCHANGED <<selectedType, customLabel, customMessage, customColor, badges>>
    /\ UNCHANGED <<formVars, dcVars>>

\* the label, message and color inputs, rendered for the custom template
SetCustomLabel(label) ==
    /\ selectedType = "custom"
    /\ label # customLabel
    /\ customLabel' = label
    /\ UNCHANGED <<selectedType, badgeUrl, customMessage, customColor, badges>>
    /\ UNCHANGED <<formVars, dcVars>>

SetCustomMessage(message) ==
    /\ selectedType = "custom"
    /\ message # customMessage
    /\ customMessage' = message
    /\ UNCHANGED <<selectedType, badgeUrl, customLabel, customColor, badges>>
    /\ UNCHANGED <<formVars, dcVars>>

SetCustomColor(color) ==
    /\ selectedType = "custom"
    /\ color # customColor
    /\ customColor' = color
    /\ UNCHANGED <<selectedType, badgeUrl, customLabel, customMessage, badges>>
    /\ UNCHANGED <<formVars, dcVars>>

\* the Add Badge button: disabled={!currentTemplate || !badgeUrl}
AddBadgeEnabled == HasTemplate(selectedType) /\ badgeUrl # <<>>

\* addBadge stopped by one of its two guards: a toast, no state change
AddBadgeRefused ==
    /\ AddBadgeEnabled
    /\ \/ ~HasTemplate(selectedType)
       \/ Trim(badgeUrl) = <<>>
       \/ ~validateUrl(badgeUrl)
    /\ UNCHANGED <<selectedType, badgeUrl, customLabel, customMessage, customColor, badges>>
    /\ UNCHANGED <<formVars, dcVars>>

\* addBadge past its guards, id being what Math.random() gave
AddBadge(id) ==
    /\ AddBadgeEnabled
    /\ HasTemplate(selectedType)
    /\ Trim(badgeUrl) # <<>>
    /\ validateUrl(badgeUrl)
    /\ Len(badges) < MaxBadges
    /\ badges' = Append(badges,
           [id |-> id, type |-> selectedType, url |-> badgeUrl,
            label |-> OrUndefined(customLabel), message |-> OrUndefined(customMessage),
            color |-> OrUndefined(customColor)])
    /\ badgeUrl' = <<>>
    /\ customLabel' = <<>>
    /\ customMessage' = <<>>
    /\ customColor' = Blue
    /\ UNCHANGED selectedType
    /\ UNCHANGED <<formVars, dcVars>>

\* removeBadge(id): badges.filter(b => b.id !== id)
RemoveBadge(id) ==
    /\ \E i \in 1..Len(badges) : badges[i].id = id
    /\ badges' = SelectSeq(badges, LAMBDA b : b.id # id)
    /\ UNCHANGED <<selectedType, badgeUrl, customLabel, customMessage, customColor>>
    /\ UNCHANGED <<formVars, dcVars>>

\* ---------------------------------------------------- ReadmeGenerator

\* LICENSE_OPTIONS values, in catalog order
LICENSE_OPTIONS ==
    <<"MIT", "Apache-2.0", "GPL-3.0", "BSD-3-Clause", "BSD-2-Clause", "ISC",
      "MPL-2.0", "LGPL-3.0", "AGPL-3.0", "Unlicense", "Proprietary">>

Includes(seq, x) == \E i \in 1..Len(seq) : seq[i] = x

\* mutant: a newly selected license goes to the front
ToggledFront(prev, license) ==
    IF Includes(prev, license)
    THEN SelectSeq(prev, LAMBDA l : l # license)
    ELSE <<license>> \o prev

\* mutant: the license is added whether or not it is selected already
ToggledAlwaysAdded(prev, license) == Append(prev, license)

\* prev.includes(license) ? prev.filter(l => l !== license) : [...prev, license]
Toggled(prev, license) ==
    IF Includes(prev, license)
    THEN SelectSeq(prev, LAMBDA l : l # license)
    ELSE Append(prev, license)

toggleLicense(license) ==
    /\ selectedLicenses' = Toggled(selectedLicenses, license)
    /\ UNCHANGED <<projectName, description, installation, usage, features,
                   author, contributing>>
    /\ UNCHANGED <<badgeVars, dcVars>>

\* the onChange handlers of the form fields
SetProjectName(text) ==
    /\ text # projectName
    /\ projectName' = text
    /\ UNCHANGED <<description, installation, usage, features, selectedLicenses,
                   author, contributing>>
    /\ UNCHANGED <<badgeVars, dcVars>>
SetDescription(text) ==
    /\ text # description
    /\ description' = text
    /\ UNCHANGED <<projectName, installation, usage, features, selectedLicenses,
                   author, contributing>>
    /\ UNCHANGED <<badgeVars, dcVars>>
SetFeatures(text) ==
    /\ text # features
    /\ features' = text
    /\ UNCHANGED <<projectName, description, installation, usage, selectedLicenses,
                   author, contributing>>
    /\ UNCHANGED <<badgeVars, dcVars>>
SetInstallation(text) ==
    /\ text # installation
    /\ installation' = text
    /\ UNCHANGED <<projectName, description, usage, features, selectedLicenses,
                   author, contributing>>
    /\ UNCHANGED <<badgeVars, dcVars>>
SetUsage(text) ==
    /\ text # usage
    /\ usage' = text
    /\ UNCHANGED <<projectName, description, installation, features, selectedLicenses,
                   author, contributing>>
    /\ UNCHANGED <<badgeVars, dcVars>>
SetContributing(text) ==
    /\ text # contributing
    /\ contributing' = text
    /\ UNCHANGED <<projectName, description, installation, usage, features,
                   selectedLicenses, author>>
    /\ UNCHANGED <<badgeVars, dcVars>>
SetAuthor(text) ==
    /\ text # author
    /\ author' = text
    /\ UNCHANGED <<projectName, description, installation, usage, features,
                   selectedLicenses, contributing>>
    /\ UNCHANGED <<badgeVars, dcVars>>

\* the sections of generateReadme, each "" when its if is not taken
TitleSection(name) ==
    IF name # "" THEN "# " \o name \o "\n\n" ELSE ""

BadgeSnippet(badge) ==
    IF HasTemplate(badge.type)
    THEN generateMarkdown(badge.type, badge.url, badge.label, badge.message, badge.color)
         \o " "
    ELSE ""

BadgesSection(list) ==
    IF Len(list) > 0
    THEN Concat([i \in 1..Len(list) |-> BadgeSnippet(list[i])]) \o "\n\n"
    ELSE ""

DescriptionSection(text) ==
    IF text # "" THEN "## Description\n\n" \o text \o "\n\n" ELSE ""

\* mutant: only empty lines are dropped, lines of white space are kept
FeatureListNonEmpty(text) == SelectSeq(SplitLines(text), LAMBDA f : f # <<>>)

\* features.split("\n").filter(f => f.trim())
FeatureList(text) == SelectSeq(SplitLines(text), LAMBDA f : Trim(f) # <<>>)

FeaturesSection(text) ==
    IF text # <<>>
    THEN "## Features\n\n"
         \o Concat([i \in 1..Len(FeatureList(text)) |->
                       "- " \o Str(Trim(FeatureList(text)[i])) \o "\n"])
         \o "\n"
    ELSE ""

\* the code fence: three backquotes in the source; a TLA+ string cannot hold a
\* backquote, so the fence is spelt with tildes here
Fence == "~~~"

InstallationSection(text) ==
    IF text # ""
    THEN "## Installation\n\n" \o Fence \o "bash\n" \o text \o "\n" \o Fence \o "\n\n"
    ELSE ""

UsageSection(text) ==
    IF text # ""
    THEN "## Usage\n\n" \o Fence \o "bash\n" \o text \o "\n" \o Fence \o "\n\n"
    ELSE ""

ContributingSection(text) ==
    IF text # "" THEN "## Contributing\n\n" \o text \o "\n\n" ELSE ""

LicenseSection(licenses) ==
    IF Len(licenses) > 0
    THEN "## License\n\n"
         \o (IF Len(licenses) = 1
             THEN "This project is licensed under the " \o licenses[1] \o " License.\n\n"
             ELSE "This project is licensed under multiple licenses:\n\n"
                  \o Concat([i \in 1..Len(licenses) |-> "- " \o licenses[i] \o "\n"])
                  \o "\n")
    ELSE ""

AuthorSection(text) ==
    IF text # "" THEN "## Author\n\n" \o text \o "\n" ELSE ""

Placeholder == "# My Project\n\nAdd project details to generate README"

\* mutant: the accumulated text is returned as it is
OrPlaceholderMissing(readme) == readme

\* readme || "# My Project\n\nAdd project details to generate README"
OrPlaceholder(readme) == IF readme = "" THEN Placeholder ELSE readme

\* mutant: the usage block comes before the installation block
generateReadmeUsageFirst ==
    OrPlaceholder(
        TitleSection(projectName)
        \o BadgesSection(badges)
        \o DescriptionSection(description)
        \o FeaturesSection(features)
        \o UsageSection(usage)
        \o InstallationSection(installation)
        \o ContributingSection(contributing)
        \o LicenseSection(selectedLicenses)
        \o AuthorSection(author))

\* generateReadme() on the component's current state
generateReadme ==
    OrPlaceholder(
        TitleSection(projectName)
        \o BadgesSection(badges)
        \o DescriptionSection(description)
        \o FeaturesSection(features)
        \o InstallationSection(installation)
        \o UsageSection(usage)
        \o ContributingSection(contributing)
        \o LicenseSection(selectedLicenses)
        \o AuthorSection(author))

\* --------------------------------------------------------- specifications

DCInit ==
    /\ packageJson = EmptyText
    /\ dependencies = <<>>
    /\ analysis = Null
    /\ isAnalyzing = FALSE
    /\ timers = <<>>
    /\ reads = <<>>
    /\ requested = Null
    /\ done = Null
    /\ shownBefore = FALSE
    /\ origin = Null
    /\ last = "init"

\* the useState initial values of ReadmeGenerator and BadgeSelector
NpmInstall == "npm install"
NpmStart == "npm start"
ContributingDefault ==
    "Pull requests are welcome. For major changes, please open an issue first."

RGInit ==
    /\ projectName = ""
    /\ description = ""
    /\ installation = NpmInstall
    /\ usage = NpmStart
    /\ features = <<>>
    /\ selectedLicenses = <<"MIT">>
    /\ author = ""
    /\ contributing = ContributingDefault
    /\ badges = <<>>
    /\ selectedType = ""
    /\ badgeUrl = <<>>
    /\ customLabel = <<>>
    /\ customMessage = <<>>
    /\ customColor = Blue

Init == DCInit /\ RGInit

Next ==
    \/ \E text \in EditTexts : SetPackageJson(text)
    \/ LoadExample
    \/ HandleAnalyze
    \/ TimerFired
    \/ \E file \in Files : UploadRejected(file)
    \/ \E file \in Files : UploadAccepted(file)
    \/ ReaderOnload
    \/ ReaderOnerror
    \/ UpdateFailed
    \/ UpdateToLatestVersions

\* the DependencyChecker under every interleaving of its handlers
Spec == Init /\ [][Next]_vars

\* analyze and update-to-latest applied to each manifest text, typed into the
\* field of a fresh component or of one that shows the example's analysis
ManifestInit ==
    /\ packageJson \in ManifestTexts
    /\ done \in {Null, Some(ExampleText)}
    /\ requested = done
    /\ dependencies = (IF done = Null THEN <<>> ELSE TryAnalyze(done[1]).deps)
    /\ analysis = (IF done = Null THEN Null ELSE TryAnalyze(done[1]).analysis)
    /\ isAnalyzing = FALSE
    /\ timers = <<>>
    /\ reads = <<>>
    /\ shownBefore = FALSE
    /\ origin = Null
    /\ last = "edit"
    /\ RGInit

ManifestNext ==
    \/ HandleAnalyze
    \/ TimerFired
    \/ UpdateFailed
    \/ UpdateToLatestVersions

SpecManifest == ManifestInit /\ [][ManifestNext]_vars

\* what the user types into the form fields
NameTexts == {"", "Dev-Tools"}
DescriptionTexts == {"", "A simple tool.\nIt checks dependencies."}
FeaturesTexts == {<<>>, <<" ", "\t">>, <<"a", " ", "\n", " ", "\n", "\n", " ", "b", "c">>}
InstallationTexts == {"", NpmInstall}
UsageTexts == {"", NpmStart}
ContributingTexts == {"", ContributingDefault}
AuthorTexts == {"", "@star2knb"}
ReadmeLicenses == {"MIT", "Apache-2.0"}
ReadmeBadgeTypes == {"github-stars"}
ReadmeBadgeUrls == {<<>>, <<"a", "/", "b">>, <<"a", " ", "b">>}
\* what Math.random().toString(36).substr(2, 9) may give
BadgeIds == {"k3j9x0q1z", "0f8a2m4cd"}

ReadmeNext ==
    \/ \E text \in NameTexts : SetProjectName(text)
    \/ \E text \in DescriptionTexts : SetDescription(text)
    \/ \E text \in FeaturesTexts : SetFeatures(text)
    \/ \E text \in InstallationTexts : SetInstallation(text)
    \/ \E text \in UsageTexts : SetUsage(text)
    \/ \E text \in ContributingTexts : SetContributing(text)
    \/ \E text \in AuthorTexts : SetAuthor(text)
    \/ \E license \in ReadmeLicenses : toggleLicense(license)
    \/ \E type \in ReadmeBadgeTypes : SetSelectedType(type)
    \/ \E url \in ReadmeBadgeUrls : SetBadgeUrl(url)
    \/ AddBadgeRefused
    \/ \E id \in BadgeIds : AddBadge(id)
    \/ \E id \in BadgeIds : RemoveBadge(id)

\* the ReadmeGenerator form with its BadgeSelector
SpecReadme == Init /\ [][ReadmeNext]_vars

LicenseNext ==
    \E i \in 1..LicenseCount : toggleLicense(LICENSE_OPTIONS[i])

\* the license checkboxes alone
SpecLicenses == Init /\ [][LicenseNext]_vars

\* what the user types into the badge inputs
BadgeUrls ==
    {<<>>,
     <<" ">>,
     <<"a", "/", "b">>,
     <<"i", "n", "v", "a", "l", "i", "d", " ", "s", "p", "a", "c", "e", "/", "x">>,
     <<"h", "t", "t", "p", ":", "/", "/", "x">>,
     <<"M", "I", "T">>}
CustomLabels == {<<>>, <<"L">>}
CustomMessages == {<<>>, <<"M">>}
CustomColors == {Blue, <<"r", "e", "d">>}

BadgeNext ==
    \/ \E i \in 1..Len(TemplateTypes) : SetSelectedType(TemplateTypes[i])
    \/ \E url \in BadgeUrls : SetBadgeUrl(url)
    \/ \E label \in CustomLabels : SetCustomLabel(label)
    \/ \E message \in CustomMessages : SetCustomMessage(message)
    \/ \E color \in CustomColors : SetCustomColor(color)
    \/ AddBadgeRefused
    \/ \E id \in BadgeIds : badges = <<>> /\ AddBadge(id)
    \/ \E id \in BadgeIds : RemoveBadge(id)

\* the BadgeSelector over the whole catalog, a badge added to an empty list
SpecBadges == Init /\ [][BadgeNext]_vars

\* the timer callback can run: ENABLED <<TimerFired>>_vars, every run of the
\* callback taking a timer off the queue
TimerPending == timers # <<>>

\* a timer that was set runs its callback, the event loop leaves no expired
\* timer waiting for ever: WF_vars(TimerFired), with ENABLED written out
TimerFairness == <>[]TimerPending => []<><<TimerFired>>_vars

\* the DependencyChecker with its timers run
SpecLive == Init /\ [][Next]_vars /\ TimerFairness


\* ------------------------------------------------------------------ claims

\* C1: after a successful analysis the stored summary satisfies
\* specificVersions + rangeVersions + latestVersions = total, and total is
\* the number of records produced from the three sections.
C1_CountersSumToTotal ==
    analysis # Null =>
        LET a == analysis[1]
        IN  /\ a.specificVersions + a.rangeVersions + a.latestVersions = a.total
            /\ a.total = Len(dependencies)

\* a summary with every class counted and records from all three sections
C1_Witness ==
    /\ analysis # Null
    /\ analysis[1].specificVersions > 0
    /\ analysis[1].rangeVersions > 0
    /\ analysis[1].latestVersions > 0
    /\ \A i \in 1..3 : \E d \in 1..Len(dependencies) :
           dependencies[d].type = SectionTypes[i]

\* C2: when a run on text that is not valid JSON has completed, no records
\* and no summary are shown, whatever was shown before the run.
C2_InvalidJsonClears ==
    (done # Null /\ ~JSONParse(done[1]).ok /\ last = "timer") =>
        (dependencies = <<>> /\ analysis = Null)

\* a run on "{not json" completed while a summary was shown
C2_Witness ==
    /\ done = Some(NotJsonText)
    /\ last = "timer"
    /\ shownBefore
    /\ analysis = Null

\* C3 as claimed: a run on JSON text whose top-level value is not an object
\* fails like malformed JSON (no summary, empty record list).
C3_NonObjectFails ==
    (done # Null /\ last = "timer" /\ done[1].wf /\ done[1].doc.t # "obj") =>
        (dependencies = <<>> /\ analysis = Null)

\* C4 as claimed: updateToLatestVersions on text that cannot be parsed
\* leaves no records and no summary.
C4_UpdateFailureClears ==
    (last = "updateFailed" /\ ~JSONParse(packageJson).ok) =>
        (dependencies = <<>> /\ analysis = Null)

RecordCount(text) ==
    LET parsed == JSONParse(text).val
    IN  SectionCount(parsed, "dependencies") + SectionCount(parsed, "devDependencies")
        + SectionCount(parsed, "peerDependencies")

\* C5: when the analysis of the text a successful updateToLatestVersions
\* wrote has completed, latestVersions = total, rangeVersions =
\* specificVersions = 0, and total is the record count of the text the update
\* started from.
C5_UpdatedTextIsAllLatest ==
    (origin # Null /\ done = Some(origin[1].to) /\ last = "timer") =>
        /\ analysis # Null
        /\ analysis[1].latestVersions = analysis[1].total
        /\ analysis[1].rangeVersions = 0
        /\ analysis[1].specificVersions = 0
        /\ analysis[1].total = RecordCount(origin[1].from)

\* the rewritten text of a manifest with range, pinned and non-string
\* versions in all three sections was analysed
C5_Witness ==
    /\ origin # Null
    /\ done = Some(origin[1].to)
    /\ last = "timer"
    /\ analysis # Null
    /\ analysis[1].total >= 3
    /\ analysis[1].peerDependencies > 0
    /\ analysis[1].devDependencies > 0
    /\ origin[1].from.fmt = "compact"
    /\ TryAnalyze(origin[1].from).threw

\* C6 as claimed: a run on any well-formed JSON object succeeds and stores a
\* summary.
C6_ObjectAlwaysSucceeds ==
    (done # Null /\ last = "timer" /\ done[1].wf /\ done[1].doc.t = "obj") =>
        analysis # Null

CatalogOrder(licenses) ==
    SelectSeq(LICENSE_OPTIONS, LAMBDA l : Includes(licenses, l))

\* C8 as claimed: the License section depends only on the set of selected
\* licenses, so it equals the section of any other toggle sequence ending
\* with the same set, such as the one ending in catalog order.
C8_SetDeterminesLicenseSection ==
    LicenseSection(selectedLicenses) = LicenseSection(CatalogOrder(selectedLicenses))

\* C8 amended: the License section follows the order of selection: toggling
\* an unselected license puts it last in the section, toggling a selected
\* one removes it and keeps the order of the others.
C8_SectionFollowsSelectionOrder ==
    [][\A i \in 1..Len(LICENSE_OPTIONS) :
          LET l == LICENSE_OPTIONS[i]
          IN  (Includes(selectedLicenses, l) # Includes(selectedLicenses', l)) =>
                  LicenseSection(selectedLicenses') =
                      IF Includes(selectedLicenses, l)
                      THEN LicenseSection(SelectSeq(selectedLicenses, LAMBDA x : x # l))
                      ELSE LicenseSection(selectedLicenses \o <<l>>)]_vars

\* three licenses selected in an order that is not the catalog's
C8_Witness == selectedLicenses = <<"GPL-3.0", "MIT", "Apache-2.0">>

AllFieldsEmpty ==
    /\ projectName = "" /\ description = "" /\ features = <<>>
    /\ installation = "" /\ usage = "" /\ contributing = ""
    /\ author = "" /\ badges = <<>> /\ selectedLicenses = <<>>

\* C9: generateReadme never returns the empty string, and with every field
\* empty, no badge and no license it returns the placeholder document.
C9_NeverEmptyPlaceholderWhenAllEmpty ==
    /\ generateReadme # ""
    /\ AllFieldsEmpty => generateReadme = Placeholder

\* every field cleared, the only license deselected
C9_Witness == AllFieldsEmpty

HasField(x, key) == x.t = "obj" /\ HasKey(x.v, key)

\* the issue list the claim describes, from the shown records and the
\* manifest; present(key) says when the name / version counts as present
ExpectedIssues(records, present(_)) ==
    LET latest == {i \in 1..Len(records) : records[i].version = JStr(Latest)}
        deprecated == SelectSeq(records,
                          LAMBDA r : r.name \in {"request", "node-uuid", "gulp-util"})
    IN  (IF latest # {} THEN <<LatestIssue(Cardinality(latest))>> ELSE <<>>)
        \o (IF Len(records) = 0 THEN <<"No dependencies found">> ELSE <<>>)
        \o (IF ~present("name") THEN <<"Package name is missing">> ELSE <<>>)
        \o (IF ~present("version") THEN <<"Package version is missing">> ELSE <<>>)
        \o [i \in 1..Len(deprecated) |->
              "\"" \o deprecated[i].name \o "\" is deprecated and should be replaced"]

NoIssueExpected(records, present(_)) ==
    /\ present("name") /\ present("version")
    /\ Len(records) >= 1
    /\ \A i \in 1..Len(records) :
          /\ records[i].version # JStr(Latest)
          /\ records[i].name \notin {"request", "node-uuid", "gulp-util"}

AnalysisSucceeded == done # Null /\ last = "timer" /\ analysis # Null

\* C10 as claimed: the issues of a successful analysis are, in this order,
\* the latest warning, "No dependencies found", the name and version issues
\* when the manifest has no such field, and the deprecation issues in record
\* order; the list is empty exactly when name and version are present, there
\* is a record, none is latest and none is deprecated.
C10_IssuesAsClaimed ==
    AnalysisSucceeded =>
        LET manifest == JSONParse(done[1]).val
            Present(key) == HasField(manifest, key)
        IN  /\ analysis[1].issues = ExpectedIssues(dependencies, Present)
            /\ (analysis[1].issues = <<>>) <=> NoIssueExpected(dependencies, Present)

\* C10 amended: the same list and order, with the name and version issues
\* present exactly when the field is absent or falsy (an empty string, 0,
\* false, null), and the list empty exactly when name and version are
\* non-empty, there is a record, none is latest and none is deprecated.
C10_IssuesInFixedOrder ==
    AnalysisSucceeded =>
        LET manifest == JSONParse(done[1]).val
            Present(key) == Truthy(Get(manifest, key))
        IN  /\ analysis[1].issues = ExpectedIssues(dependencies, Present)
            /\ (analysis[1].issues = <<>>) <=> NoIssueExpected(dependencies, Present)

\* an analysis with the latest warning, both missing-field issues and two
\* deprecation issues
C10_Witness ==
    /\ AnalysisSucceeded
    /\ Len(analysis[1].issues) = 5
    /\ analysis[1].issues[2] = "Package name is missing"
    /\ analysis[1].issues[3] = "Package version is missing"
    /\ analysis[1].issues[5] = "\"node-uuid\" is deprecated and should be replaced"

\* ---------------------------------------------------------------- C11

IssueListed(issue) == \E i \in 1..Len(analysis[1].issues) : analysis[1].issues[i] = issue

\* C11 as claimed: in a successful analysis "Package name is missing" is
\* listed exactly when the manifest has no name field and "Package version
\* is missing" exactly when it has no version field; a field that is there,
\* whatever its value, does not get the issue.
C11_IssueIffFieldAbsent ==
    AnalysisSucceeded =>
        LET manifest == JSONParse(done[1]).val
        IN  /\ IssueListed("Package name is missing") <=> ~HasField(manifest, "name")
            /\ IssueListed("Package version is missing") <=> ~HasField(manifest, "version")

\* C11 amended: in a successful analysis "Package name is missing" is listed
\* exactly when the name of the manifest is absent or falsy (the empty
\* string, 0, false, null), and "Package version is missing" exactly when
\* the version is absent or falsy; a field with a truthy value never gets
\* the issue.
C11_IssueIffFieldFalsy ==
    AnalysisSucceeded =>
        LET manifest == JSONParse(done[1]).val
        IN  /\ IssueListed("Package name is missing") <=> ~Truthy(Get(manifest, "name"))
            /\ IssueListed("Package version is missing") <=> ~Truthy(Get(manifest, "version"))

\* a successful analysis of a manifest whose name is the empty string and
\* whose version is the number 0: both fields are there, both issues listed
C11_Witness ==
    /\ AnalysisSucceeded
    /\ Get(JSONParse(done[1]).val, "name") = JStr(<<>>)
    /\ Get(JSONParse(done[1]).val, "version") = JNum(0)
    /\ IssueListed("Package name is missing")
    /\ IssueListed("Package version is missing")

\* ---------------------------------------------------------------- C12

\* the records and summary a run on the text ends with when it starts from
\* the component's initial state: nothing shown, callback run at once
FirstRun(text) ==
    LET r == TryAnalyze(text)
    IN  IF r.threw THEN Catch(<<>>, Null)
        ELSE [deps |-> r.deps, analysis |-> r.analysis]

\* C12: analyzePackageJson is deterministic: whatever was shown before and
\* whatever the text field holds when the timer fires, a run ends with the
\* records and the summary that a run on the same input text ends with from
\* the initial state, so any two runs on the same text end alike.
C12_RunDependsOnInputOnly ==
    (last = "timer" /\ done # Null) =>
        /\ dependencies = FirstRun(done[1]).deps
        /\ analysis = FirstRun(done[1]).analysis

\* a run that ended while an earlier summary was shown and the text field
\* held another text than the one the run was started on
C12_Witness ==
    /\ last = "timer"
    /\ done # Null
    /\ shownBefore
    /\ packageJson # done[1]
    /\ NonEmpty(packageJson)
    /\ analysis # Null

\* ---------------------------------------------------------------- C13

\* the three classes as the claim words them, on a record's version string
RangeQualified(v) == Len(v) >= 1 /\ v[1] \in {"^", "~"}
LatestTagged(v) == v = <<"l", "a", "t", "e", "s", "t">>
SpecificVersion(v) == ~RangeQualified(v) /\ ~LatestTagged(v)

RecordsOfClass(InClass(_)) ==
    Cardinality({i \in 1..Len(dependencies) : InClass(dependencies[i].version.v)})

RecordsOfType(type) ==
    {i \in 1..Len(dependencies) : dependencies[i].type = type}

\* C13: in a successful analysis every version string is counted once, as
\* range-qualified when it starts with ^ or ~, as latest when it is exactly
\* "latest", as specific otherwise, by the same rule for the records of
\* dependencies, devDependencies and peerDependencies: each counter is the
\* number of records of all three sections that are in its class.
C13_OneClassPerVersion ==
    AnalysisSucceeded =>
        /\ \A i \in 1..Len(dependencies) : dependencies[i].version.t = "str"
        /\ analysis[1].rangeVersions = RecordsOfClass(RangeQualified)
        /\ analysis[1].latestVersions = RecordsOfClass(LatestTagged)
        /\ analysis[1].specificVersions = RecordsOfClass(SpecificVersion)

\* a successful analysis with records of all three sections, a tilde range
\* in devDependencies, a latest in peerDependencies, the empty string and a
\* longer string that starts with "latest" among the specific ones
C13_Witness ==
    /\ AnalysisSucceeded
    /\ \E i \in RecordsOfType("devDependencies") :
          dependencies[i].version.v = <<"~", "3">>
    /\ \E i \in RecordsOfType("peerDependencies") :
          LatestTagged(dependencies[i].version.v)
    /\ \E i \in RecordsOfType("dependencies") : dependencies[i].version.v = <<>>
    /\ \E i \in RecordsOfType("dependencies") :
          dependencies[i].version.v = <<"l", "a", "t", "e", "s", "t", "!">>
    /\ analysis[1].rangeVersions = 1
    /\ analysis[1].latestVersions = 1
    /\ analysis[1].specificVersions = 3

\* ---------------------------------------------------------------- C14

\* the value the manifest text writes for a top-level key (Absent: none)
WrittenSection(text, type) ==
    LET m == text.doc.v
        at == {i \in 1..Len(m) : m[i][1] = type}
    IN  IF at = {} THEN Absent
        ELSE m[CHOOSE i \in at : \A j \in at : j <= i][2]

\* the manifest is an object whose three sections, where written, are objects
SectionsAreObjects(text) ==
    /\ text.wf
    /\ text.doc.t = "obj"
    /\ \A i \in 1..Len(SectionTypes) :
          WrittenSection(text, SectionTypes[i]).t \in {"undefined", "obj"}

\* one record per written key-value pair, in written order
RecordsAsWritten(text, type) ==
    LET s == WrittenSection(text, type)
    IN  IF s.t # "obj" THEN <<>>
        ELSE [i \in 1..Len(s.v) |-> Dependency(s.v[i][1], s.v[i][2], type)]

\* the written pairs that survive parsing: for each key its last pair
LastPairs(pairs) ==
    {i \in 1..Len(pairs) : \A j \in 1..Len(pairs) : pairs[j][1] = pairs[i][1] => j <= i}

FirstAt(pairs, i) ==
    CHOOSE j \in 1..Len(pairs) :
        /\ pairs[j][1] = pairs[i][1]
        /\ \A k \in 1..Len(pairs) : pairs[k][1] = pairs[i][1] => j <= k

\* i's key is enumerated before j's: integer-like keys first, ascending,
\* then the other keys in the order they first appear
EnumeratedBefore(pairs, i, j) ==
    LET a == ArrayIndex(pairs[i][1])
        b == ArrayIndex(pairs[j][1])
    IN  IF a # -1 /\ b # -1 THEN a < b
        ELSE IF a # -1 THEN TRUE
        ELSE IF b # -1 THEN FALSE
        ELSE FirstAt(pairs, i) < FirstAt(pairs, j)

\* one record per distinct key, in enumeration order, with the last value
RecordsAsEnumerated(text, type) ==
    LET s == WrittenSection(text, type)
    IN  IF s.t # "obj" THEN <<>>
        ELSE LET keep == LastPairs(s.v)
                 Rank(i) == 1 + Cardinality({j \in keep : EnumeratedBefore(s.v, j, i)})
             IN  [n \in 1..Cardinality(keep) |->
                    LET i == CHOOSE i \in keep : Rank(i) = n
                    IN  Dependency(s.v[i][1], s.v[i][2], type)]

\* C14 as claimed: the records of a successful analysis are the dependencies
\* records, then the devDependencies records, then the peerDependencies
\* records, each section in the key order of the manifest, one record per
\* key-value pair, each tagged with its section.
C14_RecordsInManifestKeyOrder ==
    (AnalysisSucceeded /\ SectionsAreObjects(done[1])) =>
        dependencies = RecordsAsWritten(done[1], "dependencies")
                       \o RecordsAsWritten(done[1], "devDependencies")
                       \o RecordsAsWritten(done[1], "peerDependencies")

\* C14 amended: the records of a successful analysis are the dependencies
\* records, then the devDependencies records, then the peerDependencies
\* records, each tagged with its section, each section in the enumeration
\* order of the parsed object: integer-like keys first in ascending order,
\* then the other keys in the order they first appear in the manifest, one
\* record per distinct key, with the last value written for that key.
C14_RecordsInEnumerationOrder ==
    (AnalysisSucceeded /\ SectionsAreObjects(done[1])) =>
        dependencies = RecordsAsEnumerated(done[1], "dependencies")
                       \o RecordsAsEnumerated(done[1], "devDependencies")
                       \o RecordsAsEnumerated(done[1], "peerDependencies")

\* a successful analysis of a manifest that writes the dependencies keys b,
\* 1, b, 0: the records are 0, 1, b (b with its second value), then the
\* devDependencies record, then the two peerDependencies records
C14_Witness ==
    /\ AnalysisSucceeded
    /\ SectionsAreObjects(done[1])
    /\ WrittenSection(done[1], "dependencies").t = "obj"
    /\ Len(WrittenSection(done[1], "dependencies").v) = 4
    /\ Len(dependencies) = 6
    /\ dependencies[1] = Dependency("0", JStr(<<"2">>), "dependencies")
    /\ dependencies[2] = Dependency("1", JStr(<<"^", "1">>), "dependencies")
    /\ dependencies[3] = Dependency("b", JStr(Latest), "dependencies")
    /\ dependencies[4].type = "devDependencies"
    /\ dependencies[5] = Dependency("react", JStr(Latest), "peerDependencies")
    /\ dependencies[6].type = "peerDependencies"

\* ---------------------------------------------------------------- C15

\* where the text first holds the part (0: nowhere)
IndexOf(part, text) ==
    LET at == {i \in 1..(Len(text) - Len(part) + 1) :
                  SubSeq(text, i, i + Len(part) - 1) = part}
    IN  IF at = {} THEN 0 ELSE CHOOSE i \in at : \A j \in at : i <= j

\* how each section shows in the text, in the claimed order: the title is
\* the level-one heading the text starts with, the badges are image links,
\* the others have their level-two heading
SectionMarks ==
    <<"# ", "![", "## Description\n\n", "## Features\n\n", "## Installation\n\n",
      "## Usage\n\n", "## Contributing\n\n", "## License\n\n", "## Author\n\n">>

\* whether the source field of each section is non-empty, in the same order
SectionSources ==
    <<projectName # "", Len(badges) > 0, description # "", features # <<>>,
      installation # "", usage # "", contributing # "",
      Len(selectedLicenses) > 0, author # "">>

SectionAt(k, text) ==
    IF k = 1 THEN (IF SubSeq(text, 1, 2) = "# " THEN 1 ELSE 0)
    ELSE IndexOf(SectionMarks[k], text)

\* C15: unless every field is empty, a section is in the text generateReadme
\* returns exactly when its source field is non-empty, and the sections that
\* are there come in the order title, badges, description, features,
\* installation, usage, contributing, license, author, whatever the fields
\* hold.
C15_SectionsInFixedOrder ==
    (\E k \in 1..9 : SectionSources[k]) =>
        LET text == generateReadme
            at == <<SectionAt(1, text), SectionAt(2, text), SectionAt(3, text),
                    SectionAt(4, text), SectionAt(5, text), SectionAt(6, text),
                    SectionAt(7, text), SectionAt(8, text), SectionAt(9, text)>>
        IN  /\ \A k \in 1..9 : (at[k] # 0) <=> SectionSources[k]
            /\ \A k, l \in 1..9 : (k < l /\ at[k] # 0 /\ at[l] # 0) => at[k] < at[l]

\* all nine sections at once, the features field with blank lines
C15_Witness ==
    /\ \A k \in 1..9 : SectionSources[k]
    /\ Len(FeatureList(features)) < Len(SplitLines(features))
    /\ Len(selectedLicenses) = 2
    /\ SectionAt(9, generateReadme) > SectionAt(8, generateReadme)

\* ---------------------------------------------------------------- C16

ValidBadge(b) ==
    /\ HasTemplate(b.type)
    /\ Trim(b.url) # <<>>
    /\ UrlPatternTest(b.type, b.url)

\* C16: after every step each badge in the list has one of the ten catalog
\* types and an identifier that is not blank and matches its template's
\* pattern, and the list grows only in a step taken with a template
\* selected and an identifier that is not blank and matches the pattern: an
\* addBadge call without these leaves the list as it is.
C16_OnlyValidBadgesListed ==
    [][/\ Len(TemplateTypes) = 10
       /\ \A i \in 1..Len(badges') : ValidBadge(badges'[i])
       /\ (Len(badges') > Len(badges)) =>
             /\ HasTemplate(selectedType)
             /\ Trim(badgeUrl) # <<>>
             /\ UrlPatternTest(selectedType, badgeUrl)
             /\ badges'[Len(badges')].type = selectedType
             /\ badges'[Len(badges')].url = badgeUrl]_vars

\* a github-stars badge in the list while the inputs hold an identifier the
\* github-stars pattern rejects
C16_Witness ==
    /\ Len(badges) = 1
    /\ badges[1].type = "github-stars"
    /\ badges[1].url = <<"a", "/", "b">>
    /\ selectedType = "github-stars"
    /\ badgeUrl = <<"i", "n", "v", "a", "l", "i", "d", " ", "s", "p", "a", "c", "e", "/", "x">>
    /\ ~validateUrl(badgeUrl)

\* ---------------------------------------------------------------- C17

\* C17 as claimed: the badges in the list have pairwise distinct ids (so
\* that removeBadge(id) removes one badge and keeps the others in order).
C17_BadgeIdsDistinct ==
    \A i, j \in 1..Len(badges) : badges[i].id = badges[j].id => i = j

\* ---------------------------------------------------------------- C18

\* label, message and color arguments, Undefined among them
OptionalArguments == {Undefined, <<"L">>, <<"M">>, <<"r", "e", "d">>}

\* identifiers to compare a badge's identifier with
OtherIdentifiers ==
    BadgeUrls \cup {<<"c", "/", "d">>, <<"h", "t", "t", "p", "s", ":", "/", "/", "y">>,
                    <<"I", "S", "C">>}

IgnoresOptionalArguments(type, url) ==
    \A label, message, color \in OptionalArguments :
        generateMarkdown(type, url, label, message, color)
            = generateMarkdown(type, url, Undefined, Undefined, Undefined)

\* C18 as claimed: the markdown of a listed badge of any template but custom
\* is the same whatever label, message and color are, and differs from the
\* markdown of the same template for any other identifier the template
\* accepts; the markdown of a custom badge depends on label, message or
\* color.
C18_TemplatesEmbedIdentifier ==
    \A i \in 1..Len(badges) :
        LET b == badges[i]
        IN  IF b.type = "custom"
            THEN ~IgnoresOptionalArguments(b.type, b.url)
            ELSE /\ IgnoresOptionalArguments(b.type, b.url)
                 /\ \A other \in OtherIdentifiers :
                       (other # b.url /\ Trim(other) # <<>> /\ UrlPatternTest(b.type, other))
                       => generateMarkdown(b.type, other, b.label, b.message, b.color)
                            # generateMarkdown(b.type, b.url, b.label, b.message, b.color)

\* ---------------------------------------------------------------- C19

\* C19: a step of handleFileUpload (a file rejected for its name, or a read
\* started) and a step of reader.onerror change neither the text in the
\* field nor the shown records and summary, and start no analysis: no timer
\* is set and isAnalyzing keeps its value.
C19_FailedUploadChangesNothing ==
    [][last' \in {"uploadRejected", "upload", "onerror"} =>
          /\ packageJson' = packageJson
          /\ dependencies' = dependencies
          /\ analysis' = analysis
          /\ timers' = timers
          /\ isAnalyzing' = isAnalyzing
          /\ requested' = requested]_vars

\* a read has just failed while the field holds a text and its analysis is
\* shown
C19_Witness ==
    /\ last = "onerror"
    /\ NonEmpty(packageJson)
    /\ analysis # Null
    /\ dependencies # <<>>
    /\ timers = <<>>

\* ---------------------------------------------------------------- C20

\* a section after the update: the same names in the same order, every
\* version "latest"
SectionRewritten(old, new) ==
    CASE old.t = "obj" ->
            /\ new.t = "obj"
            /\ Len(new.v) = Len(old.v)
            /\ \A j \in 1..Len(old.v) :
                  new.v[j] = <<old.v[j][1], JStr(<<"l", "a", "t", "e", "s", "t">>)>>
      [] old.t = "arr" ->
            /\ new.t = "arr"
            /\ Len(new.v) = Len(old.v)
            /\ \A j \in 1..Len(old.v) : new.v[j] = JStr(<<"l", "a", "t", "e", "s", "t">>)
      [] OTHER -> new = old

\* the manifest after the update against the manifest before: the same
\* top-level fields in the same order, the three sections rewritten where
\* they hold something, every other field as it was
OnlyVersionsChanged(before, after) ==
    IF before.t # "obj" THEN after = before
    ELSE /\ after.t = "obj"
         /\ Len(after.v) = Len(before.v)
         /\ \A i \in 1..Len(before.v) :
               /\ after.v[i][1] = before.v[i][1]
               /\ IF before.v[i][1] \in {"dependencies", "devDependencies", "peerDependencies"}
                     /\ Truthy(before.v[i][2])
                  THEN SectionRewritten(before.v[i][2], after.v[i][2])
                  ELSE after.v[i][2] = before.v[i][2]

\* a second update of the rewritten text succeeds and gives the same text
SecondUpdateSame(text) ==
    /\ ~TryUpdate(text).threw
    /\ TryUpdate(text).updatedJson = text

\* C20 as claimed: a successful update leaves the manifest as it is written
\* but for the versions in the three sections, all "latest": the names of
\* each section and their order, the sections that are there and all other
\* top-level fields are unchanged; a second update gives the same text.
C20_UpdateKeepsWrittenManifest ==
    (last = "update" /\ origin # Null) =>
        /\ OnlyVersionsChanged(origin[1].from.doc, origin[1].to.doc)
        /\ SecondUpdateSame(origin[1].to)

\* C20 amended: a successful update leaves the parsed manifest as it is but
\* for the versions in the three sections, all "latest": the names of each
\* section in their enumeration order (integer-like names first, ascending,
\* a name written twice kept once), the sections that are there and all
\* other top-level fields are unchanged; a second update gives the same
\* text.
C20_UpdateKeepsParsedManifest ==
    (last = "update" /\ origin # Null) =>
        /\ OnlyVersionsChanged(JSONParse(origin[1].from).val, JSONParse(origin[1].to).val)
        /\ JSONParse(origin[1].to).val = origin[1].to.doc
        /\ SecondUpdateSame(origin[1].to)

\* an update of a manifest with a name, a version and the three sections,
\* the dependencies written with the keys b, 1, b, 0
C20_Witness ==
    /\ last = "update"
    /\ origin # Null
    /\ origin[1].from.wf
    /\ origin[1].from.doc.t = "obj"
    /\ Len(origin[1].from.doc.v) = 5
    /\ origin[1].from.doc.v[2][1] = "dependencies"
    /\ origin[1].from.doc.v[2][2].t = "obj"
    /\ Len(origin[1].from.doc.v[2][2].v) = 4
    /\ origin[1].from # origin[1].to
    /\ packageJson = origin[1].to

\* ---------------------------------------------------------------- C21

RECURSIVE JoinedBySpaces(_)
\* the strings with one space between consecutive ones
JoinedBySpaces(strings) ==
    IF strings = <<>> THEN ""
    ELSE IF Len(strings) = 1 THEN strings[1]
    ELSE strings[1] \o " " \o JoinedBySpaces(Tail(strings))

RenderedSnippets ==
    [i \in 1..Len(badges) |->
        generateMarkdown(badges[i].type, badges[i].url, badges[i].label,
                         badges[i].message, badges[i].color)]

\* the text of generateReadme behind the title
AfterTitle ==
    SubSeq(generateReadme, Len(TitleSection(projectName)) + 1, Len(generateReadme))

\* C21 as claimed: with badges in the list, the badges line of the README is
\* the rendered snippets of the badges, in list order, with a single space
\* between consecutive snippets and nothing else, and the blank line follows.
C21_BadgesLineSpaceJoined ==
    (Len(badges) > 0) =>
        LET line == JoinedBySpaces(RenderedSnippets) \o "\n\n"
        IN  SubSeq(AfterTitle, 1, Len(line)) = line

\* ---------------------------------------------------------------- C22

\* a line is blank when it is empty or holds white space only
BlankLine(line) == \A i \in 1..Len(line) : line[i] \in {" ", "\t", "\r", "\f"}

NonBlankLines(text) == SelectSeq(SplitLines(text), LAMBDA line : ~BlankLine(line))

\* the Features section the claim describes: the heading, one list item per
\* non-blank line in line order, and the closing blank line
FeaturesAsClaimed(text) ==
    "## Features\n\n"
    \o Concat([i \in 1..Len(NonBlankLines(text)) |->
                  "- " \o Str(Trim(NonBlankLines(text)[i])) \o "\n"])
    \o "\n"

\* the text of generateReadme from the Features heading on
FromFeatures ==
    SubSeq(generateReadme, IndexOf("## Features\n\n", generateReadme), Len(generateReadme))

\* C22: when the features field is not empty, the Features section of the
\* README holds one list item for each non-blank line of the field, in line
\* order, and none for an empty line or a line of white space; what follows
\* the last item is the end of the section.
C22_OneItemPerNonBlankLine ==
    (features # <<>>) =>
        LET section == FeaturesAsClaimed(features)
            rest == SubSeq(FromFeatures, Len(section) + 1, Len(FromFeatures))
        IN  /\ IndexOf("## Features\n\n", generateReadme) # 0
            /\ SubSeq(FromFeatures, 1, Len(section)) = section
            /\ rest = "" \/ SubSeq(rest, 1, 3) = "## "

\* a features field of four lines, one empty and one of white space, a
\* README with two items, and a section behind the Features section
C22_Witness ==
    /\ Len(SplitLines(features)) = 4
    /\ Len(NonBlankLines(features)) = 2
    /\ \E i \in 1..4 : SplitLines(features)[i] = <<>>
    /\ \E i \in 1..4 : SplitLines(features)[i] = <<" ">>
    /\ IndexOf("## Features\n\n- a\n- bc\n\n## ", generateReadme) # 0

\* ---------------------------------------------------------------- C23

\* C23 as claimed: isAnalyzing is true exactly when an analysis timer is
\* pending.
C23_LoadingIffTimerPending ==
    isAnalyzing <=> (timers # <<>>)

\* ---------------------------------------------------------------- C24

\* C24: with the timers run, whenever isAnalyzing is true it is false again
\* later, whether the callback's parse succeeds or throws: no analysis
\* request leaves the Analyze button disabled for ever.
C24_AnalysisCompletes ==
    isAnalyzing ~> ~isAnalyzing

\* an analysis of a text that does not parse has completed and the Analyze
\* button is enabled again
C24_Witness ==
    /\ last = "timer"
    /\ done = Some(NotJsonText)
    /\ analysis = Null
    /\ ~isAnalyzing
    /\ timers = <<>>
    /\ NonEmpty(packageJson)

\* ---------------------------------------------------------------- C25

\* C25: the shown records and summary belong together: without a
\* summary there are no records, and with one its total is the number of
\* records and its three section counts add up to the total.
C25_RecordsMatchSummary ==
    /\ analysis = Null => dependencies = <<>>
    /\ analysis # Null =>
          /\ analysis[1].total = Len(dependencies)
          /\ analysis[1].dependencies + analysis[1].devDependencies
                + analysis[1].peerDependencies = analysis[1].total

\* a shown summary with records of all three sections
C25_Witness ==
    /\ AnalysisSucceeded
    /\ analysis[1].dependencies > 0
    /\ analysis[1].devDependencies > 0
    /\ analysis[1].peerDependencies > 0
    /\ shownBefore
    /\ Len(dependencies) = analysis[1].total

\* ---------------------------------------------------------------- C26

SelectedSet(licenses) == {licenses[i] : i \in 1..Len(licenses)}

NoDuplicate(licenses) ==
    \A i, j \in 1..Len(licenses) : licenses[i] = licenses[j] => i = j

\* C26: from the initial selection [MIT], every toggleLicense call leaves a
\* list without duplicates and changes the membership of exactly one
\* license, the one toggled: selected when it was not, unselected when it
\* was; toggling any license twice from there gives the same set again.
C26_ToggleFlipsOneLicense ==
    [][/\ NoDuplicate(selectedLicenses')
       /\ \E x \in SelectedSet(LICENSE_OPTIONS) :
             /\ (x \in SelectedSet(selectedLicenses')) <=> (x \notin SelectedSet(selectedLicenses))
             /\ SelectedSet(selectedLicenses') \ {x} = SelectedSet(selectedLicenses) \ {x}
       /\ \A x \in SelectedSet(LICENSE_OPTIONS) :
             SelectedSet(Toggled(Toggled(selectedLicenses', x), x))
                = SelectedSet(selectedLicenses')]_vars

\* MIT was unselected and selected again after Apache-2.0 was selected: the
\* set is the one before the two calls, MIT now last
C26_Witness == selectedLicenses = <<"Apache-2.0", "MIT">>

====
